---------------------------- MODULE Spec2Model ----------------------------
(***************************************************************************)
(* State-machine model of the sea-battle program in src/main.py: the Board *)
(* (placement, contour, shot, begin), the Player.move retry loop, the AI   *)
(* targeting function ai_brain and Game.loop.                              *)
(*                                                                         *)
(* A Dot is the record [x, y].  A Ship is [start, horizontal, length,      *)
(* lives] with horizontal the 0/1 value randint(0, 1) gives.  A Board is   *)
(* [size, field, busy, ships, count]; field maps every in-bounds Dot to    *)
(* its symbol; busy, a duplicate-free list the code only ever tests with   *)
(* "in", is kept as the set of its elements.                               *)
(***************************************************************************)
EXTENDS Integers, Sequences, FiniteSets

VARIABLES
    boards,     \* player index -> Board: 1 is player_1 (the user's), 2 player_2
    prev,       \* player index -> Player.prev
    num,        \* Game.loop's turn counter
    is_sunk,    \* Player.move's local: the enemy's count when move() began
    shot_set,   \* the list ai_brain returned, where ai_brain is run alone
    winner,     \* who Game.loop announced
    pc,         \* where the program is: "setup" and "play" (a Board's life),
                \* "loop", "move", "done", "crashed" (Game.loop), "asked"
    last,       \* the latest call: its name, argument, exception and result
    fired,      \* history, single board: index -> the dots shot() accepted
    okShots,    \* history: the shots accepted since move() began
    attempt     \* try_board's loop variable for the length it is placing

vars == <<boards, prev, num, is_sunk, shot_set, winner, pc, last, fired, okShots,
          attempt>>

\* what belongs to the players and the game loop
gameVars == <<prev, num, is_sunk, shot_set, winner, okShots, attempt>>

(***************************************************************************)
(* Bounds of the model.                                                    *)
(***************************************************************************)
\* side of the Board the single-board specification exercises (Board(size))
BoardSize == 3
\* number of ships the single-board specification places
MaxShips == 2
\* number of accepted shots the single-board specification fires
MaxShots == 3

(***************************************************************************)
(* Cell symbols of Board.field.                                            *)
(***************************************************************************)
EMPTY == "O"
SHIP == "#"      \* the source prints a filled square
HIT == "X"
MISS == "."

NoException == "None"
BoardOutException == "BoardOutException"
BoardBusyException == "BoardBusyException"
BoardShipFailureException == "BoardShipFailureException"
IndexError == "IndexError"

\* the ship lengths try_board places, in its order
lens == <<3, 2, 2, 1, 1, 1, 1>>

Dot(x, y) == [x |-> x, y |-> y]

Range(s) == {s[i] : i \in DOMAIN s}

Min(S) == CHOOSE m \in S : \A n \in S : m <= n
Max(S) == CHOOSE m \in S : \A n \in S : m >= n

(***************************************************************************)
(* Ship                                                                    *)
(***************************************************************************)
Ship(start, horizontal, length) ==
    [start |-> start, horizontal |-> horizontal, length |-> length,
     lives |-> length]

\* Ship.dots: the i-th dot (i = 0 .. length-1) steps y when horizontal is
\* truthy and x otherwise
dots(ship) ==
    [k \in 1..ship.length |->
        IF ship.horizontal # 0
        THEN Dot(ship.start.x, ship.start.y + (k - 1))
        ELSE Dot(ship.start.x + (k - 1), ship.start.y)]

is_hit(ship, shot) == shot \in Range(dots(ship))

(***************************************************************************)
(* Board                                                                   *)
(***************************************************************************)
Cells(size) == {Dot(x, y) : x \in 0..(size - 1), y \in 0..(size - 1)}

Board(size) ==
    [size |-> size,
     field |-> [c \in Cells(size) |-> EMPTY],
     busy |-> {},
     ships |-> <<>>,
     count |-> 0]

is_out(board, dot) ==
    ~((0 <= dot.x /\ dot.x < board.size) /\ (0 <= dot.y /\ dot.y < board.size))

\* a variant of contour_rect that forgets to transpose a vertical ship
contour_rect_untransposed(ship) ==
    {Dot(i, j) : i \in (ship.start.x - 1)..(ship.start.x + 1),
                 j \in (ship.start.y - 1)..(ship.start.y + ship.length)}

\* the rectangle contour() walks: i over x-1 .. x+1 and j over y-1 .. y+length,
\* with (x, y) the start, transposed for a vertical ship
contour_rect(ship) ==
    LET x == IF ship.horizontal # 0 THEN ship.start.x ELSE ship.start.y
        y == IF ship.horizontal # 0 THEN ship.start.y ELSE ship.start.x
    IN  {IF ship.horizontal # 0 THEN Dot(i, j) ELSE Dot(j, i) :
            i \in (x - 1)..(x + 1), j \in (y - 1)..(y + ship.length)}

\* a variant of contour that skips only the cells outside the board: a cell
\* that is busy already is marked again
contour_ignores_busy(board, ship, is_visible) ==
    LET fresh == {cur \in contour_rect(ship) : ~is_out(board, cur)}
    IN  [board EXCEPT
            !.field = [c \in DOMAIN board.field |->
                          IF is_visible /\ c \in fresh THEN MISS
                          ELSE board.field[c]],
            !.busy = board.busy \cup fresh]

\* Board.contour: every cell of the rectangle that is in bounds and not busy
\* becomes busy, and shows "." when is_visible.  The cells of the rectangle are
\* distinct, so the loop's test against the growing busy list is a test
\* against the list it started with.
contour(board, ship, is_visible) ==
    LET fresh == {cur \in contour_rect(ship) :
                     ~(is_out(board, cur) \/ cur \in board.busy)}
    IN  [board EXCEPT
            !.field = [c \in DOMAIN board.field |->
                          IF is_visible /\ c \in fresh THEN MISS
                          ELSE board.field[c]],
            !.busy = board.busy \cup fresh]

\* the second loop of add_ship, its call of contour and the append
add_ship_place(board, ship) ==
    LET d == Range(dots(ship))
        marked == [board EXCEPT
                      !.field = [c \in DOMAIN board.field |->
                                    IF c \in d THEN SHIP ELSE board.field[c]],
                      !.busy = board.busy \cup d]
        ringed == contour(marked, ship, FALSE)
    IN  [ringed EXCEPT !.ships = Append(ringed.ships, ship)]

\* a variant of add_ship with one loop, which marks each dot as soon as it has
\* checked it: dots 1..k-1 are already placed when dot k is rejected
RECURSIVE add_ship_one_loop_from(_, _, _)
add_ship_one_loop_from(board, ship, k) ==
    IF k > ship.length
    THEN [board |-> LET ringed == contour(board, ship, FALSE)
                    IN  [ringed EXCEPT !.ships = Append(ringed.ships, ship)],
          exc |-> NoException]
    ELSE LET d == dots(ship)[k]
         IN  IF is_out(board, d) \/ d \in board.busy
             THEN [board |-> board, exc |-> BoardShipFailureException]
             ELSE add_ship_one_loop_from(
                      [board EXCEPT !.field[d] = SHIP,
                                    !.busy = board.busy \cup {d}],
                      ship, k + 1)

add_ship_one_loop(board, ship) == add_ship_one_loop_from(board, ship, 1)

\* Board.add_ship: the checking pre-pass raises before anything is written
add_ship(board, ship) ==
    IF \E k \in 1..ship.length :
           is_out(board, dots(ship)[k]) \/ dots(ship)[k] \in board.busy
    THEN [board |-> board, exc |-> BoardShipFailureException]
    ELSE [board |-> add_ship_place(board, ship), exc |-> NoException]

\* the ships of the list that d hits, by index
hit_ships(board, d) == {i \in 1..Len(board.ships) : is_hit(board.ships[i], d)}

\* a variant of shot_hit that never advances the sunk counter
shot_hit_forgets_count(board, d, i) ==
    LET struck == [board EXCEPT !.field[d] = HIT,
                                !.ships[i].lives = board.ships[i].lives - 1]
    IN  IF struck.ships[i].lives > 0
        THEN [board |-> struck, exc |-> NoException, ret |-> TRUE]
        ELSE [board |-> contour(struck, struck.ships[i], TRUE),
              exc |-> NoException, ret |-> FALSE]

\* a variant of shot_hit that grants another shot for every hit, a kill too
shot_hit_always_repeat(board, d, i) ==
    LET struck == [board EXCEPT !.field[d] = HIT,
                                !.ships[i].lives = board.ships[i].lives - 1]
    IN  IF struck.ships[i].lives > 0
        THEN [board |-> struck, exc |-> NoException, ret |-> TRUE]
        ELSE [board |-> contour([struck EXCEPT !.count = struck.count + 1],
                                struck.ships[i], TRUE),
              exc |-> NoException, ret |-> TRUE]

\* a variant of shot_hit that counts every hit as a kill
shot_hit_counts_every_hit(board, d, i) ==
    LET struck == [board EXCEPT !.field[d] = HIT,
                                !.ships[i].lives = board.ships[i].lives - 1,
                                !.count = board.count + 1]
    IN  IF struck.ships[i].lives > 0
        THEN [board |-> struck, exc |-> NoException, ret |-> TRUE]
        ELSE [board |-> contour(struck, struck.ships[i], TRUE),
              exc |-> NoException, ret |-> FALSE]

\* a variant of shot_hit that rings a sunk ship as add_ship does, unseen
shot_hit_hidden_contour(board, d, i) ==
    LET struck == [board EXCEPT !.field[d] = HIT,
                                !.ships[i].lives = board.ships[i].lives - 1]
    IN  IF struck.ships[i].lives > 0
        THEN [board |-> struck, exc |-> NoException, ret |-> TRUE]
        ELSE [board |-> contour([struck EXCEPT !.count = struck.count + 1],
                                struck.ships[i], FALSE),
              exc |-> NoException, ret |-> FALSE]

\* the body of the for loop of shot for the first ship that d hits
shot_hit(board, d, i) ==
    LET struck == [board EXCEPT !.field[d] = HIT,
                                !.ships[i].lives = board.ships[i].lives - 1]
    IN  IF struck.ships[i].lives > 0
        THEN [board |-> struck, exc |-> NoException, ret |-> TRUE]
        ELSE [board |-> contour([struck EXCEPT !.count = struck.count + 1],
                                struck.ships[i], TRUE),
              exc |-> NoException, ret |-> FALSE]

\* a variant of shot that forgets to record the dot it accepted as busy
shot_forgets_busy(board, d) ==
    IF is_out(board, d)
    THEN [board |-> board, exc |-> BoardOutException, ret |-> FALSE]
    ELSE IF d \in board.busy
    THEN [board |-> board, exc |-> BoardBusyException, ret |-> FALSE]
    ELSE IF hit_ships(board, d) # {}
    THEN shot_hit(board, d, Min(hit_ships(board, d)))
    ELSE [board |-> [board EXCEPT !.field[d] = MISS],
          exc |-> NoException, ret |-> FALSE]

\* Board.shot
shot(board, d) ==
    IF is_out(board, d)
    THEN [board |-> board, exc |-> BoardOutException, ret |-> FALSE]
    ELSE IF d \in board.busy
    THEN [board |-> board, exc |-> BoardBusyException, ret |-> FALSE]
    ELSE LET marked == [board EXCEPT !.busy = board.busy \cup {d}]
         IN  IF hit_ships(marked, d) # {}
             THEN shot_hit(marked, d, Min(hit_ships(marked, d)))
             ELSE [board |-> [marked EXCEPT !.field[d] = MISS],
                   exc |-> NoException, ret |-> FALSE]

\* Board.begin
begin(board) == [board EXCEPT !.busy = {}]

(***************************************************************************)
(* The single-board specification: a Board(BoardSize) is set up by any     *)
(* add_ship calls, begin() is called once, and any shots follow.  last     *)
(* records the latest call, its argument and how it ended; fired is the    *)
(* history of the dots shot() accepted.                                    *)
(***************************************************************************)
NoDot == Dot(0, 0)

Call(op, d, horizontal, length, exc, ret) ==
    [op |-> op, d |-> d, horizontal |-> horizontal, length |-> length,
     exc |-> exc, ret |-> ret]

\* out-of-bounds dots a caller may pass: one for each comparison of is_out
OutDots(size) ==
    {Dot(-1, 0), Dot(0, -1), Dot(size, size - 1), Dot(size - 1, size)}

\* the dots a caller may pass: every cell of the board and the dots above
DotInputs(size) == Cells(size) \cup OutDots(size)

InitBoard ==
    /\ boards = [b \in {1} |-> Board(BoardSize)]
    /\ last = Call("init", NoDot, 0, 0, NoException, FALSE)
    /\ pc = "setup"
    /\ fired = [b \in {1} |-> {}]
    /\ prev = [b \in {1} |-> <<>>]
    /\ num = 0
    /\ is_sunk = 0
    /\ shot_set = {}
    /\ okShots = 0
    /\ attempt = 0
    /\ winner = "nobody"

AddShip ==
    /\ pc = "setup"
    /\ Len(boards[1].ships) < MaxShips
    /\ \E d \in DotInputs(BoardSize), horizontal \in {0, 1},
          length \in Range(lens) :
          \E r \in {add_ship(boards[1], Ship(d, horizontal, length))} :
              /\ boards' = [boards EXCEPT ![1] = r.board]
              /\ last' = Call("add_ship", d, horizontal, length, r.exc, FALSE)
    /\ UNCHANGED <<pc, fired, gameVars>>

Begin ==
    /\ pc = "setup"
    /\ boards' = [boards EXCEPT ![1] = begin(boards[1])]
    /\ last' = Call("begin", NoDot, 0, 0, NoException, FALSE)
    /\ pc' = "play"
    /\ UNCHANGED <<fired, gameVars>>

Shot ==
    /\ pc = "play"
    /\ Cardinality(fired[1]) < MaxShots
    /\ \E d \in DotInputs(BoardSize) :
          \E r \in {shot(boards[1], d)} :
              /\ boards' = [boards EXCEPT ![1] = r.board]
              /\ last' = Call("shot", d, 0, 0, r.exc, r.ret)
              /\ fired' = [fired EXCEPT ![1] =
                              IF r.exc = NoException THEN @ \cup {d} ELSE @]
    /\ UNCHANGED <<pc, gameVars>>

NextBoard == AddShip \/ Begin \/ Shot

SpecBoard == InitBoard /\ [][NextBoard]_vars

(***************************************************************************)
(* Player.move                                                             *)
(***************************************************************************)
\* a variant of the handler that is "except BoardOutException"
catches_out_only(exc) == exc = BoardOutException

\* a variant of move() without the try: no exception is caught
catches_nothing(exc) == FALSE

\* "except BoardException": the three Board exceptions are caught, the
\* IndexError of choice([]) is not
Catches(exc) ==
    exc \in {BoardOutException, BoardBusyException, BoardShipFailureException}

\* a variant of move_prev that keeps the hits when the enemy's count changed
move_prev_never_clears(p, target, repeat, sunk_before, enemy_count) ==
    IF repeat THEN Append(p, target) ELSE p

\* a variant of move_prev that remembers every accepted target, a miss too
move_prev_appends_every_shot(p, target, repeat, sunk_before, enemy_count) ==
    IF sunk_before # enemy_count THEN <<>> ELSE Append(p, target)

\* lines 146-149 of move(): what prev is after an accepted shot at target
move_prev(p, target, repeat, sunk_before, enemy_count) ==
    LET appended == IF repeat THEN Append(p, target) ELSE p
    IN  IF sunk_before # enemy_count THEN <<>> ELSE appended

\* a variant of ai_brain whose bracket phase does not filter the busy dots
ai_brain_bracket_unfiltered(p, enemy) ==
    IF Len(p) = 2
    THEN (IF p[1].x = p[2].x
          THEN {Dot(p[1].x, Min({p[1].y, p[2].y}) - 1),
                Dot(p[1].x, Max({p[1].y, p[2].y}) + 1)}
          ELSE {Dot(Min({p[1].x, p[2].x}) - 1, p[1].y),
                Dot(Max({p[1].x, p[2].x}) + 1, p[1].y)})
    ELSE IF Len(p) = 1
    THEN {Dot(p[1].x + 1, p[1].y), Dot(p[1].x - 1, p[1].y),
          Dot(p[1].x, p[1].y + 1), Dot(p[1].x, p[1].y - 1)} \ enemy.busy
    ELSE LET first == ({Dot(i, i) : i \in 0..5}
                         \cup {Dot(i, i + 3) : i \in 0..2}
                         \cup {Dot(i + 3, i) : i \in 0..2}) \ enemy.busy
             second == ({Dot(i, i - 1) : i \in 1..5}
                          \cup {Dot(i, i + 2) : i \in 0..3}
                          \cup {Dot(0, 5), Dot(5, 0)}) \ enemy.busy
             rest == {Dot(i, j) : i \in 0..5, j \in 0..5} \ enemy.busy
         IN  IF first # {} THEN first
             ELSE IF second # {} THEN second
             ELSE rest

(***************************************************************************)
(* AI.ai_brain: the candidates, as the set of the list's elements (no list *)
(* it builds holds a dot twice, and choice() only picks one).              *)
\* a variant of ai_brain whose cross phase offers (x, y+1) twice and never
\* (x, y-1)
ai_brain_cross_three_sides(p, enemy) ==
    IF Len(p) = 2
    THEN (IF p[1].x = p[2].x
          THEN {Dot(p[1].x, Min({p[1].y, p[2].y}) - 1),
                Dot(p[1].x, Max({p[1].y, p[2].y}) + 1)}
          ELSE {Dot(Min({p[1].x, p[2].x}) - 1, p[1].y),
                Dot(Max({p[1].x, p[2].x}) + 1, p[1].y)}) \ enemy.busy
    ELSE IF Len(p) = 1
    THEN {Dot(p[1].x + 1, p[1].y), Dot(p[1].x - 1, p[1].y),
          Dot(p[1].x, p[1].y + 1), Dot(p[1].x, p[1].y + 1)} \ enemy.busy
    ELSE LET first == ({Dot(i, i) : i \in 0..5}
                         \cup {Dot(i, i + 3) : i \in 0..2}
                         \cup {Dot(i + 3, i) : i \in 0..2}) \ enemy.busy
             second == ({Dot(i, i - 1) : i \in 1..5}
                          \cup {Dot(i, i + 2) : i \in 0..3}
                          \cup {Dot(0, 5), Dot(5, 0)}) \ enemy.busy
             rest == {Dot(i, j) : i \in 0..5, j \in 0..5} \ enemy.busy
         IN  IF first # {} THEN first
             ELSE IF second # {} THEN second
             ELSE rest

\* a variant of ai_brain whose search phase skips the second pattern
ai_brain_search_skips_second(p, enemy) ==
    IF Len(p) = 2
    THEN (IF p[1].x = p[2].x
          THEN {Dot(p[1].x, Min({p[1].y, p[2].y}) - 1),
                Dot(p[1].x, Max({p[1].y, p[2].y}) + 1)}
          ELSE {Dot(Min({p[1].x, p[2].x}) - 1, p[1].y),
                Dot(Max({p[1].x, p[2].x}) + 1, p[1].y)}) \ enemy.busy
    ELSE IF Len(p) = 1
    THEN {Dot(p[1].x + 1, p[1].y), Dot(p[1].x - 1, p[1].y),
          Dot(p[1].x, p[1].y + 1), Dot(p[1].x, p[1].y - 1)} \ enemy.busy
    ELSE LET first == ({Dot(i, i) : i \in 0..5}
                         \cup {Dot(i, i + 3) : i \in 0..2}
                         \cup {Dot(i + 3, i) : i \in 0..2}) \ enemy.busy
             second == ({Dot(i, i - 1) : i \in 1..5}
                          \cup {Dot(i, i + 2) : i \in 0..3}
                          \cup {Dot(0, 5), Dot(5, 0)}) \ enemy.busy
             rest == {Dot(i, j) : i \in 0..5, j \in 0..5} \ enemy.busy
         IN  IF first # {} THEN first
             ELSE IF FALSE THEN second
             ELSE rest

\* a variant of ai_brain whose main diagonal stops at (4,4): range(0, 5)
ai_brain_short_diagonal(p, enemy) ==
    IF Len(p) = 2
    THEN (IF p[1].x = p[2].x
          THEN {Dot(p[1].x, Min({p[1].y, p[2].y}) - 1),
                Dot(p[1].x, Max({p[1].y, p[2].y}) + 1)}
          ELSE {Dot(Min({p[1].x, p[2].x}) - 1, p[1].y),
                Dot(Max({p[1].x, p[2].x}) + 1, p[1].y)}) \ enemy.busy
    ELSE IF Len(p) = 1
    THEN {Dot(p[1].x + 1, p[1].y), Dot(p[1].x - 1, p[1].y),
          Dot(p[1].x, p[1].y + 1), Dot(p[1].x, p[1].y - 1)} \ enemy.busy
    ELSE LET first == ({Dot(i, i) : i \in 0..4}
                         \cup {Dot(i, i + 3) : i \in 0..2}
                         \cup {Dot(i + 3, i) : i \in 0..2}) \ enemy.busy
             second == ({Dot(i, i - 1) : i \in 1..5}
                          \cup {Dot(i, i + 2) : i \in 0..3}
                          \cup {Dot(0, 5), Dot(5, 0)}) \ enemy.busy
             rest == {Dot(i, j) : i \in 0..5, j \in 0..5} \ enemy.busy
         IN  IF first # {} THEN first
             ELSE IF second # {} THEN second
             ELSE rest

\* a variant of ai_brain without the last fall-back to the whole board
ai_brain_no_third_tier(p, enemy) ==
    IF Len(p) = 2
    THEN (IF p[1].x = p[2].x
          THEN {Dot(p[1].x, Min({p[1].y, p[2].y}) - 1),
                Dot(p[1].x, Max({p[1].y, p[2].y}) + 1)}
          ELSE {Dot(Min({p[1].x, p[2].x}) - 1, p[1].y),
                Dot(Max({p[1].x, p[2].x}) + 1, p[1].y)}) \ enemy.busy
    ELSE IF Len(p) = 1
    THEN {Dot(p[1].x + 1, p[1].y), Dot(p[1].x - 1, p[1].y),
          Dot(p[1].x, p[1].y + 1), Dot(p[1].x, p[1].y - 1)} \ enemy.busy
    ELSE LET first == ({Dot(i, i) : i \in 0..5}
                         \cup {Dot(i, i + 3) : i \in 0..2}
                         \cup {Dot(i + 3, i) : i \in 0..2}) \ enemy.busy
             second == ({Dot(i, i - 1) : i \in 1..5}
                          \cup {Dot(i, i + 2) : i \in 0..3}
                          \cup {Dot(0, 5), Dot(5, 0)}) \ enemy.busy
             rest == {Dot(i, j) : i \in 0..5, j \in 0..5} \ enemy.busy
         IN  IF first # {} THEN first
             ELSE second

(***************************************************************************)
ai_brain(p, enemy) ==
    IF Len(p) = 2
    THEN (IF p[1].x = p[2].x
          THEN {Dot(p[1].x, Min({p[1].y, p[2].y}) - 1),
                Dot(p[1].x, Max({p[1].y, p[2].y}) + 1)}
          ELSE {Dot(Min({p[1].x, p[2].x}) - 1, p[1].y),
                Dot(Max({p[1].x, p[2].x}) + 1, p[1].y)}) \ enemy.busy
    ELSE IF Len(p) = 1
    THEN {Dot(p[1].x + 1, p[1].y), Dot(p[1].x - 1, p[1].y),
          Dot(p[1].x, p[1].y + 1), Dot(p[1].x, p[1].y - 1)} \ enemy.busy
    ELSE LET first == ({Dot(i, i) : i \in 0..5}
                         \cup {Dot(i, i + 3) : i \in 0..2}
                         \cup {Dot(i + 3, i) : i \in 0..2}) \ enemy.busy
             second == ({Dot(i, i - 1) : i \in 1..5}
                          \cup {Dot(i, i + 2) : i \in 0..3}
                          \cup {Dot(0, 5), Dot(5, 0)}) \ enemy.busy
             rest == {Dot(i, j) : i \in 0..5, j \in 0..5} \ enemy.busy
         IN  IF first # {} THEN first
             ELSE IF second # {} THEN second
             ELSE rest

(***************************************************************************)
(* Game                                                                    *)
(***************************************************************************)
\* Game(6): the size of both boards
GameSize == 6
\* the count Game.loop compares with
FleetSize == 7

\* player indices: Game.user plays player_1 against player_2, Game.ai the
\* other way round
User == 1
AI == 2
Enemy(m) == 3 - m

\* the player Game.loop lets move: the user when num % 2 == 0
Mover(n) == IF n % 2 = 0 THEN User ELSE AI

\* try_board with the random draws that add_ship accepted, one per length:
\* the board after the loop over lens and begin(), or the board so far when a
\* draw is rejected (try_board then draws again)
RECURSIVE try_board_with(_, _, _)
try_board_with(board, draws, k) ==
    IF k > Len(lens)
    THEN begin(board)
    ELSE LET r == add_ship(board, Ship(draws[k].start, draws[k].horizontal,
                                       lens[k]))
         IN  IF r.exc = NoException
             THEN try_board_with(r.board, draws, k + 1)
             ELSE board

Draw(x, y, horizontal) == [start |-> Dot(x, y), horizontal |-> horizontal]

\* two runs of draws try_board can make: for player_1 a board with ships at
\* three edges, for player_2 one with its ships towards the top
DrawsUser ==
    <<Draw(3, 0, 0), Draw(0, 0, 1), Draw(2, 5, 0), Draw(0, 3, 0),
      Draw(2, 2, 1), Draw(5, 2, 0), Draw(5, 5, 1)>>
DrawsAI ==
    <<Draw(0, 0, 1), Draw(0, 4, 1), Draw(2, 0, 1), Draw(2, 3, 0),
      Draw(2, 5, 1), Draw(4, 0, 0), Draw(4, 3, 1)>>

\* the pairs of boards the two calls of random_board() return in the model
GameBoards ==
    {bs \in {[m \in {User, AI} |->
                try_board_with(Board(GameSize),
                               IF m = User THEN DrawsUser ELSE DrawsAI, 1)]} :
        \A m \in {User, AI} : Len(bs[m].ships) = Len(lens) /\ bs[m].busy = {}}

\* The dots the user types.  A person may type anything; the model offers the
\* first UserWindow cells of the enemy board, in reading order, that are not
\* busy and the first cell that is busy.  (The dots outside the board come
\* from the AI, whose candidates are not tested against the board's edge.)
UserWindow == 1

ReadingOrder(d) == d.x * GameSize + d.y

RECURSIVE FirstCells(_, _)
FirstCells(S, n) ==
    IF n = 0 \/ S = {} THEN {}
    ELSE LET c == CHOOSE c \in S :
                      \A e \in S : ReadingOrder(c) <= ReadingOrder(e)
         IN  {c} \cup FirstCells(S \ {c}, n - 1)

UserInputs(enemy) ==
    FirstCells(Cells(enemy.size) \ enemy.busy, UserWindow)
        \cup FirstCells(enemy.busy, 1)

\* a variant of loop_tail that forgets "num -= 1": the players always alternate
loop_tail_always_alternates(bs, n, repeat) ==
    IF bs[User].count = FleetSize
    THEN [num |-> n, pc |-> "done", winner |-> "computer"]
    ELSE IF bs[AI].count = FleetSize
    THEN [num |-> n, pc |-> "done", winner |-> "user"]
    ELSE [num |-> n + 1, pc |-> "loop", winner |-> "nobody"]

\* lines 266-274 of Game.loop, after move() returned repeat
loop_tail(bs, n, repeat) ==
    LET n1 == IF repeat THEN n - 1 ELSE n
    IN  IF bs[User].count = FleetSize
        THEN [num |-> n1, pc |-> "done", winner |-> "computer"]
        ELSE IF bs[AI].count = FleetSize
        THEN [num |-> n1, pc |-> "done", winner |-> "user"]
        ELSE [num |-> n1 + 1, pc |-> "loop", winner |-> "nobody"]

\* how a call made inside move() ended (the game keeps neither the dot nor
\* the history of the accepted dots: the boards hold what the play reads)
Outcome(op, exc, ret) == Call(op, NoDot, 0, 0, exc, ret)

\* the state after Game(6) was constructed and loop() set num
InitGame ==
    /\ boards \in GameBoards
    /\ prev = [m \in {User, AI} |-> <<>>]
    /\ num = 0
    /\ is_sunk = 0
    /\ shot_set = {}
    /\ winner = "nobody"
    /\ pc = "loop"
    /\ last = Outcome("init", NoException, FALSE)
    /\ fired = [m \in {User, AI} |-> {}]
    /\ okShots = 0
    /\ attempt = 0

\* Game.loop picks the mover and calls move(), which reads the enemy's count
LoopIter ==
    /\ pc = "loop"
    /\ pc' = "move"
    /\ is_sunk' = boards[Enemy(Mover(num))].count
    /\ okShots' = 0
    /\ UNCHANGED <<boards, prev, num, shot_set, winner, last, fired, attempt>>

\* the targets ask() can return to the mover
Targets(m) ==
    IF m = User THEN UserInputs(boards[Enemy(m)])
    ELSE ai_brain(prev[m], boards[Enemy(m)])

\* one pass of move()'s loop in which shot() accepts the target: prev is
\* updated, move() returns and Game.loop runs to its next call of move()
MoveAccepted ==
    /\ pc = "move"
    /\ \E m \in {Mover(num)} : \E d \in Targets(m) :
          \E r \in {shot(boards[Enemy(m)], d)} :
              /\ r.exc = NoException
              /\ \E bs \in {[boards EXCEPT ![Enemy(m)] = r.board]} :
                 \E t \in {loop_tail(bs, num, r.ret)} :
                    /\ boards' = bs
                    /\ num' = t.num
                    /\ pc' = t.pc
                    /\ winner' = t.winner
              /\ prev' = [prev EXCEPT ![m] =
                             move_prev(@, d, r.ret, is_sunk, r.board.count)]
              /\ last' = Outcome("shot", r.exc, r.ret)
    /\ okShots' = okShots + 1
    /\ UNCHANGED <<is_sunk, shot_set, fired, attempt>>

\* one pass of move()'s loop that ends in an exception.  shot() raises for
\* the target: a BoardException is printed and the loop goes round.  Or the
\* AI has nothing to choose from: choice([]) raises IndexError, which move()
\* does not catch, and the program ends.
MoveRaises ==
    /\ pc = "move"
    /\ \E m \in {Mover(num)} :
          IF Targets(m) = {}
          THEN /\ last' = Outcome("ask", IndexError, FALSE)
               /\ pc' = IF Catches(IndexError) THEN "move" ELSE "crashed"
               /\ UNCHANGED boards
          ELSE \E d \in Targets(m) :
                  \E r \in {shot(boards[Enemy(m)], d)} :
                      /\ r.exc # NoException
                      /\ boards' = [boards EXCEPT ![Enemy(m)] = r.board]
                      /\ last' = Outcome("shot", r.exc, r.ret)
                      /\ pc' = IF Catches(r.exc) THEN "move" ELSE "crashed"
    /\ UNCHANGED <<prev, num, is_sunk, shot_set, winner, fired, okShots, attempt>>

NextGame == LoopIter \/ MoveAccepted \/ MoveRaises

SpecGame == InitGame /\ [][NextGame]_vars

\* The game under fair choices: the loop keeps running, and a mover whose
\* ask() keeps proposing targets proposes, sooner or later, one that shot()
\* accepts (choice() draws every candidate with positive probability).  The
\* second condition is weak fairness of MoveAccepted with its enabling
\* condition written out: MoveAccepted is enabled only where pc = "move", and
\* C7 checks that it is enabled wherever pc = "move".
FairGame ==
    /\ SpecGame
    /\ WF_vars(LoopIter)
    /\ ([]<>(pc # "move") \/ []<><<MoveAccepted>>_vars)

(***************************************************************************)
(* Match setup: random_board() calling try_board() until it returns a      *)
(* board.  One step is one pass of the inner loop: a draw of a start and   *)
(* an orientation for the length in turn, and add_ship.  The length in     *)
(* turn is lens[Len(ships) + 1]: every accepted ship ends the inner loop   *)
(* and the outer loop moves on by one.  The source gives each length 2000  *)
(* attempts; the model gives it MaxAttempts.  The draws are those of       *)
(* DrawsUser and DrawsAI, in any order: some fit the length in turn and    *)
(* the board so far, others run off the board or onto a busy cell.         *)
(***************************************************************************)
MaxAttempts == 2

SetupDraws == Range(DrawsUser) \cup Range(DrawsAI)

\* a variant of try_board_step that goes on with the board it has when a
\* length has used up its attempts
try_board_step_keeps_board(board, a, draw) ==
    LET r == add_ship(board, Ship(draw.start, draw.horizontal,
                                  lens[Len(board.ships) + 1]))
    IN  IF r.exc = NoException
        THEN [board |-> r.board, attempt |-> 0, exc |-> r.exc, ret |-> FALSE]
        ELSE IF a = MaxAttempts - 1
        THEN [board |-> board, attempt |-> 0, exc |-> r.exc, ret |-> TRUE]
        ELSE [board |-> board, attempt |-> a + 1, exc |-> r.exc, ret |-> FALSE]

\* one pass of the inner loop of try_board with attempt = a: the ship is
\* accepted (break); or it is rejected, and if that was the last attempt
\* try_board returns None (ret) and random_board calls it again, which starts
\* from Board(size)
try_board_step(board, a, draw) ==
    LET r == add_ship(board, Ship(draw.start, draw.horizontal,
                                  lens[Len(board.ships) + 1]))
    IN  IF r.exc = NoException
        THEN [board |-> r.board, attempt |-> 0, exc |-> r.exc, ret |-> FALSE]
        ELSE IF a = MaxAttempts - 1
        THEN [board |-> Board(board.size), attempt |-> 0, exc |-> r.exc,
              ret |-> TRUE]
        ELSE [board |-> board, attempt |-> a + 1, exc |-> r.exc, ret |-> FALSE]

InitSetup ==
    /\ boards = [b \in {1} |-> Board(GameSize)]
    /\ pc = "try_board"
    /\ attempt = 0
    /\ last = Outcome("init", NoException, FALSE)
    /\ fired = [b \in {1} |-> {}]
    /\ prev = [b \in {1} |-> <<>>]
    /\ num = 0
    /\ is_sunk = 0
    /\ shot_set = {}
    /\ okShots = 0
    /\ winner = "nobody"

\* a pass in which add_ship accepts the ship
TryPlaced ==
    /\ pc = "try_board"
    /\ Len(boards[1].ships) < Len(lens)
    /\ \E draw \in SetupDraws :
          \E r \in {try_board_step(boards[1], attempt, draw)} :
              /\ r.exc = NoException
              /\ boards' = [boards EXCEPT ![1] = r.board]
              /\ attempt' = r.attempt
              /\ last' = Outcome("add_ship", r.exc, r.ret)
    /\ UNCHANGED <<pc, fired, prev, num, is_sunk, shot_set, winner, okShots>>

\* a pass in which add_ship raises
TryRejected ==
    /\ pc = "try_board"
    /\ Len(boards[1].ships) < Len(lens)
    /\ \E draw \in SetupDraws :
          \E r \in {try_board_step(boards[1], attempt, draw)} :
              /\ r.exc # NoException
              /\ boards' = [boards EXCEPT ![1] = r.board]
              /\ attempt' = r.attempt
              /\ last' = Outcome("add_ship", r.exc, r.ret)
    /\ UNCHANGED <<pc, fired, prev, num, is_sunk, shot_set, winner, okShots>>

\* the loop over lens has ended: begin() and return board
TryBegin ==
    /\ pc = "try_board"
    /\ Len(boards[1].ships) = Len(lens)
    /\ boards' = [boards EXCEPT ![1] = begin(boards[1])]
    /\ pc' = "returned"
    /\ last' = Outcome("begin", NoException, FALSE)
    /\ UNCHANGED <<attempt, fired, prev, num, is_sunk, shot_set, winner, okShots>>

NextSetup == TryPlaced \/ TryRejected \/ TryBegin

SpecSetup == InitSetup /\ [][NextSetup]_vars

(***************************************************************************)
(* The AI's hunt: the moves of Game.ai against player_1's board, a board   *)
(* random_board() returned and nobody else shoots at.  Between two moves   *)
(* of the AI the user may move, which changes neither this board nor the   *)
(* AI's prev, so the user's moves are left out.  One step is one pass of   *)
(* the loop of move().                                                     *)
(***************************************************************************)
\* a run of draws that puts a 2-ship and four 1-ships off the first pattern
\* and the 3-ship against the edge
DrawsOffPattern ==
    <<Draw(0, 3, 1), Draw(2, 3, 1), Draw(2, 0, 0), Draw(0, 1, 0),
      Draw(5, 1, 1), Draw(5, 3, 0), Draw(4, 5, 1)>>

\* the boards random_board() returns in the model
HuntBoards ==
    {b \in {try_board_with(Board(GameSize), draws, 1) :
                draws \in {DrawsUser, DrawsAI, DrawsOffPattern}} :
        Len(b.ships) = Len(lens) /\ b.busy = {}}

InitHunt ==
    /\ \E b \in HuntBoards : boards = [m \in {User} |-> b]
    /\ prev = [m \in {AI} |-> <<>>]
    /\ num = 1
    /\ is_sunk = 0
    /\ shot_set = {}
    /\ winner = "nobody"
    /\ pc = "move"
    /\ last = Outcome("init", NoException, FALSE)
    /\ fired = [m \in {User} |-> {}]
    /\ okShots = 0
    /\ attempt = 0

\* a pass in which shot() accepts the AI's target: move() returns, Game.loop
\* stops if that was the seventh ship, and else the AI's next move() begins
\* (at once, or after the user's) by reading the count
HuntAccepted ==
    /\ pc = "move"
    /\ \E d \in ai_brain(prev[AI], boards[User]) :
          \E r \in {shot(boards[User], d)} :
              /\ r.exc = NoException
              /\ boards' = [boards EXCEPT ![User] = r.board]
              /\ prev' = [prev EXCEPT ![AI] =
                             move_prev(@, d, r.ret, is_sunk, r.board.count)]
              /\ is_sunk' = r.board.count
              /\ pc' = IF r.board.count = FleetSize THEN "done" ELSE "move"
              /\ winner' = IF r.board.count = FleetSize
                           THEN "computer" ELSE "nobody"
              /\ last' = Outcome("shot", r.exc, r.ret)
    /\ UNCHANGED <<num, shot_set, fired, okShots, attempt>>

\* a pass that ends in an exception: shot() raises for the AI's target, or
\* choice() raises for an empty list
HuntRaises ==
    /\ pc = "move"
    /\ IF ai_brain(prev[AI], boards[User]) = {}
       THEN /\ last' = Outcome("ask", IndexError, FALSE)
            /\ pc' = IF Catches(IndexError) THEN "move" ELSE "crashed"
       ELSE \E d \in ai_brain(prev[AI], boards[User]) :
               \E r \in {shot(boards[User], d)} :
                   /\ r.exc # NoException
                   /\ last' = Outcome("shot", r.exc, r.ret)
                   /\ pc' = IF Catches(r.exc) THEN "move" ELSE "crashed"
    /\ UNCHANGED <<boards, prev, num, is_sunk, shot_set, winner, fired,
                   okShots, attempt>>

NextHunt == HuntAccepted \/ HuntRaises

SpecHunt == InitHunt /\ [][NextHunt]_vars

(***************************************************************************)
(* ai_brain run alone on two hits and a busy list: AI.ask at the start of  *)
(* a bracket phase.  The hits are any two distinct cells of one row or one *)
(* column of a 6x6 board; busy holds them and up to MaxBusy further cells  *)
(* of the row and the column through the first hit.  Of the Board only     *)
(* busy is read.                                                           *)
(***************************************************************************)
MaxBusy == 2

SameLine(c, e) == c.x = e.x \/ c.y = e.y

\* two distinct cells of one row or one column
HitPairs ==
    {t \in Cells(GameSize) \X Cells(GameSize) :
        t[1] # t[2] /\ SameLine(t[1], t[2])}

\* MaxBusy picks among the cells of the row and column through the first hit;
\* picking a hit again adds nothing, so busy gains up to MaxBusy cells
FurtherBusy(t) ==
    {Range(e) : e \in [1..MaxBusy -> {c \in Cells(GameSize) : SameLine(c, t[1])}]}

InitBrain ==
    /\ \E t \in HitPairs : \E extra \in FurtherBusy(t) :
          /\ boards = [m \in {User} |->
                          [Board(GameSize) EXCEPT !.busy = {t[1], t[2]} \cup extra]]
          /\ prev = [m \in {AI} |-> <<t[1], t[2]>>]
    /\ num = 1
    /\ is_sunk = 0
    /\ shot_set = {}
    /\ winner = "nobody"
    /\ pc = "ask"
    /\ last = Outcome("init", NoException, FALSE)
    /\ fired = [m \in {User} |-> {}]
    /\ okShots = 0
    /\ attempt = 0

\* AI.ask up to its call of choice(): the list ai_brain returns
BrainAsk ==
    /\ pc = "ask"
    /\ shot_set' = ai_brain(prev[AI], boards[User])
    /\ pc' = "asked"
    /\ last' = Outcome("ai_brain", NoException, FALSE)
    /\ UNCHANGED <<boards, prev, num, is_sunk, winner, fired, okShots, attempt>>

NextBrain == BrainAsk

SpecBrain == InitBrain /\ [][NextBrain]_vars

(***************************************************************************)
(* ai_brain run alone on one hit: AI.ask in the cross phase.  The hit is   *)
(* any cell of a 6x6 board; busy holds it, any of its orthogonal           *)
(* neighbours on the board and up to MaxBusy further cells of its row and  *)
(* column.                                                                 *)
(***************************************************************************)
\* the cells of the board one step from h along a row or a column
BesideOnBoard(h) ==
    {c \in Cells(GameSize) :
        (c.x = h.x /\ (c.y = h.y + 1 \/ c.y = h.y - 1))
            \/ (c.y = h.y /\ (c.x = h.x + 1 \/ c.x = h.x - 1))}

InitCross ==
    /\ \E h \in Cells(GameSize) :
       \E near \in SUBSET BesideOnBoard(h), extra \in FurtherBusy(<<h, h>>) :
          /\ boards = [m \in {User} |->
                          [Board(GameSize) EXCEPT !.busy = {h} \cup near \cup extra]]
          /\ prev = [m \in {AI} |-> <<h>>]
    /\ num = 1
    /\ is_sunk = 0
    /\ shot_set = {}
    /\ winner = "nobody"
    /\ pc = "ask"
    /\ last = Outcome("init", NoException, FALSE)
    /\ fired = [m \in {User} |-> {}]
    /\ okShots = 0
    /\ attempt = 0

SpecCross == InitCross /\ [][NextBrain]_vars

(***************************************************************************)
(* ai_brain run alone with prev empty: AI.ask in the search phase.  busy   *)
(* holds the first a cells of the first pattern and the first b cells of   *)
(* the second, in reading order, and up to MaxStray cells anywhere; or     *)
(* every cell of the board but up to MaxStray.                             *)
(***************************************************************************)
MaxStray == 1

\* the sets of at most n cells
Strays(n) ==
    UNION {{Range(e) : e \in [1..k -> Cells(GameSize)]} : k \in 0..n}

\* the cells on the diagonals y - x = k, for k in K
Diagonals(K) == {c \in Cells(GameSize) : c.y - c.x \in K}

InitSearch ==
    /\ \E stray \in Strays(MaxStray) :
          \/ \E a \in 0..Cardinality(Diagonals({-3, 0, 3})),
                b \in 0..Cardinality(Diagonals({-5, -1, 2, 5})) :
                boards = [m \in {User} |->
                    [Board(GameSize) EXCEPT !.busy =
                        FirstCells(Diagonals({-3, 0, 3}), a)
                            \cup FirstCells(Diagonals({-5, -1, 2, 5}), b)
                            \cup stray]]
          \/ boards = [m \in {User} |->
                 [Board(GameSize) EXCEPT !.busy = Cells(GameSize) \ stray]]
    /\ prev = [m \in {AI} |-> <<>>]
    /\ num = 1
    /\ is_sunk = 0
    /\ shot_set = {}
    /\ winner = "nobody"
    /\ pc = "ask"
    /\ last = Outcome("init", NoException, FALSE)
    /\ fired = [m \in {User} |-> {}]
    /\ okShots = 0
    /\ attempt = 0

SpecSearch == InitSearch /\ [][NextBrain]_vars

(***************************************************************************)
(* Vocabulary of the properties, stated on coordinates and not through     *)
(* dots(): the cells a ship occupies, and the cells within one step of it. *)
(***************************************************************************)
Abs(n) == IF n < 0 THEN -n ELSE n

Occupies(ship, c) ==
    IF ship.horizontal = 0
    THEN /\ c.y = ship.start.y
         /\ ship.start.x <= c.x /\ c.x < ship.start.x + ship.length
    ELSE /\ c.x = ship.start.x
         /\ ship.start.y <= c.y /\ c.y < ship.start.y + ship.length

Touches(c, e) == Abs(c.x - e.x) <= 1 /\ Abs(c.y - e.y) <= 1

NearShip(board, ship, c) ==
    \E e \in Cells(board.size) : Occupies(ship, e) /\ Touches(c, e)

Wounded(ship) == 0 < ship.lives /\ ship.lives < ship.length

ShipIndex(board) == 1..Len(board.ships)

Accepted(call) == call.op = "shot" /\ call.exc = NoException

(***************************************************************************)
(* C1.  An accepted shot returns TRUE ("fire again") exactly when the dot  *)
(* lies on a ship that still has lives left after the decrement; a miss    *)
(* and a shot that sinks its ship return FALSE.                            *)
(***************************************************************************)
C1_FireAgainIffWounded ==
    Accepted(last) =>
        (last.ret <=>
            \E i \in ShipIndex(boards[1]) :
                /\ Occupies(boards[1].ships[i], last.d)
                /\ boards[1].ships[i].lives > 0)

\* a fire-again answer on a board where another ship is already sunk
C1_Witness ==
    /\ Accepted(last) /\ last.ret
    /\ boards[1].count = 1

(***************************************************************************)
(* C2.  add_ship is atomic: a call that raises leaves the board (field,    *)
(* busy and ships) exactly as it was, whatever ship was offered.           *)
(***************************************************************************)
C2_AddShipAtomic ==
    [][(last'.op = "add_ship" /\ last'.exc = BoardShipFailureException)
          => boards' = boards]_vars

\* a rejected ship whose first dot was free: a later dot made the call fail
C2_Witness ==
    /\ last.op = "add_ship" /\ last.exc = BoardShipFailureException
    /\ last.length >= 2
    /\ ~is_out(boards[1], last.d) /\ last.d \notin boards[1].busy
    /\ Len(boards[1].ships) >= 1

(***************************************************************************)
(* C3.  During setup every in-bounds cell within one step of a placed ship *)
(* is busy, and in every state no two ships of a board share a cell or     *)
(* touch, side by side or corner to corner.                                *)
(***************************************************************************)
C3_MarginBusyNoTouch ==
    LET b == boards[1]
    IN  /\ pc = "setup" =>
              \A i \in ShipIndex(b) : \A c \in Cells(b.size) :
                  NearShip(b, b.ships[i], c) => c \in b.busy
        /\ \A i, j \in ShipIndex(b) :
              i # j => \A c \in Cells(b.size) :
                          ~(Occupies(b.ships[i], c) /\ NearShip(b, b.ships[j], c))

\* two ships placed, the first one vertical and longer than one cell
C3_Witness ==
    /\ pc = "setup"
    /\ Len(boards[1].ships) = 2
    /\ boards[1].ships[1].horizontal = 0 /\ boards[1].ships[1].length >= 2
    /\ boards[1].ships[2].horizontal = 1

(***************************************************************************)
(* C4.  As stated: after shot(d) was called, calling shot(d) again raises  *)
(* BoardBusyException, whatever d and however the first call ended.        *)
(***************************************************************************)
C4_SecondShotAlwaysBusy ==
    last.op = "shot" => shot(boards[1], last.d).exc = BoardBusyException

(***************************************************************************)
(* C4, amended.  After shot(d) was called with d inside the board, every   *)
(* later shot(d) raises BoardBusyException: for the dot of the latest      *)
(* call and for every dot accepted earlier.                                *)
(***************************************************************************)
C4_SecondShotBusyInBounds ==
    /\ (last.op = "shot" /\ ~is_out(boards[1], last.d))
          => shot(boards[1], last.d).exc = BoardBusyException
    /\ \A d \in fired[1] : shot(boards[1], d).exc = BoardBusyException
    /\ (last.op = "shot" /\ last.d \in fired[1] /\ last.exc # NoException)
          => last.exc = BoardBusyException

\* a second shot at a dot that was a hit the first time has been rejected
C4_Witness ==
    /\ last.op = "shot" /\ last.exc = BoardBusyException
    /\ last.d \in fired[1]
    /\ boards[1].field[last.d] = HIT

(***************************************************************************)
(* C5.  The sunk counter equals the number of ships with no lives left,    *)
(* so it equals the number of ships only when every ship is sunk; lives    *)
(* stay between 0 and the ship's length.                                   *)
(***************************************************************************)
C5_CountIsSunkShips ==
    LET b == boards[1]
    IN  /\ b.count = Cardinality({i \in ShipIndex(b) : b.ships[i].lives = 0})
        /\ \A i \in ShipIndex(b) :
              0 <= b.ships[i].lives /\ b.ships[i].lives <= b.ships[i].length
        /\ b.count = Len(b.ships) =>
              \A i \in ShipIndex(b) : b.ships[i].lives = 0

\* one ship sunk while another is wounded
C5_Witness ==
    /\ boards[1].count = 1
    /\ \E i \in ShipIndex(boards[1]) : Wounded(boards[1].ships[i])

(***************************************************************************)
(* C6.  A step in which a ship loses its last life raises the sunk counter *)
(* by exactly 1; every other step (a miss, a non-lethal hit, a rejected    *)
(* shot, add_ship, begin) leaves it unchanged; it never decreases.         *)
(***************************************************************************)
C6_Sinks ==
    \E i \in ShipIndex(boards[1]) :
        boards[1].ships[i].lives > 0 /\ boards'[1].ships[i].lives = 0

C6_SinkAddsOne ==
    [][/\ C6_Sinks => boards'[1].count = boards[1].count + 1
       /\ ~C6_Sinks => boards'[1].count = boards[1].count
       /\ boards'[1].count >= boards[1].count]_vars

\* the latest shot sank a ship of more than one cell, after a miss
C6_Witness ==
    /\ Accepted(last) /\ ~last.ret
    /\ boards[1].field[last.d] = HIT
    /\ boards[1].count = 1
    /\ \E i \in ShipIndex(boards[1]) :
          Occupies(boards[1].ships[i], last.d) /\ boards[1].ships[i].length = 2
    /\ Cardinality(fired[1]) = 3

(***************************************************************************)
(* C7.  Under fair choices the match ends: a mover can always fire an      *)
(* accepted shot (no stall, no crash), and Game.loop reaches its break     *)
(* with the sunk counter of one board at 7.                                *)
(***************************************************************************)
GameOver ==
    /\ pc = "done"
    /\ boards[User].count = FleetSize \/ boards[AI].count = FleetSize

CanFire ==
    \E d \in Targets(Mover(num)) :
        shot(boards[Enemy(Mover(num))], d).exc = NoException

C7_MatchTerminates ==
    /\ [](pc # "crashed" /\ (pc = "move" => CanFire))
    /\ <>GameOver

\* the loop has stopped with the user's board at 7 and the AI's board not
C7_Witness ==
    /\ GameOver
    /\ boards[User].count = FleetSize /\ boards[AI].count < FleetSize

(***************************************************************************)
(* C8.  A shot rejected inside move() (BoardOutException or                *)
(* BoardBusyException) does not leave move(): boards and prev are          *)
(* unchanged and the ask/shot cycle goes round; move() returns in the      *)
(* pass where shot() accepts, after exactly one accepted shot.             *)
(***************************************************************************)
C8_RejectionRetries ==
    [][/\ (pc = "move"
             /\ last'.exc \in {BoardOutException, BoardBusyException})
          => /\ boards' = boards /\ prev' = prev
             /\ pc' = "move" /\ num' = num /\ winner' = winner
             /\ okShots' = okShots /\ okShots = 0
       /\ (pc = "move" /\ pc' \in {"loop", "done"})
          => /\ last'.exc = NoException
             /\ okShots' = 1
             /\ \E m \in {User, AI} :
                   /\ boards'[m].busy # boards[m].busy
                   /\ boards'[Enemy(m)] = boards[Enemy(m)]]_vars

\* the AI, with one hit at the board's edge, proposed a dot outside the board
C8_Witness ==
    /\ pc = "move" /\ Mover(num) = AI
    /\ last.op = "shot" /\ last.exc = BoardOutException
    /\ Len(prev[AI]) = 1
    /\ boards[AI].count >= 1

(***************************************************************************)
(* C9.  After a move() that returned TRUE the same player moves next;      *)
(* after one that returned FALSE the other player does; nothing happens    *)
(* once a board's counter is 7, so the two counters are never both 7, and  *)
(* the winner announced is the attacker of the board whose counter is 7.   *)
(***************************************************************************)
C9_TurnOrder ==
    [][/\ (pc = "move" /\ pc' = "loop" /\ last'.ret)
          => Mover(num') = Mover(num)
       /\ (pc = "move" /\ pc' = "loop" /\ ~last'.ret)
          => Mover(num') # Mover(num)
       /\ boards[User].count # FleetSize /\ boards[AI].count # FleetSize
       /\ ~(boards'[User].count = FleetSize /\ boards'[AI].count = FleetSize)
       /\ (boards'[User].count = FleetSize \/ boards'[AI].count = FleetSize)
          <=> pc' = "done"
       /\ pc' = "done" =>
             winner' = IF boards'[User].count = FleetSize
                       THEN "computer" ELSE "user"
       /\ pc' # "done" => winner' = "nobody"]_vars

\* the AI wounded a ship and is about to move again, after the user sank one
C9_Witness ==
    /\ pc = "move" /\ Mover(num) = AI
    /\ Accepted(last) /\ last.ret
    /\ Len(prev[AI]) = 1
    /\ boards[AI].count >= 1

(***************************************************************************)
(* C10.  With two hits of one row (or else of one column) in prev,         *)
(* ai_brain returns exactly the two dots one step beyond the ends of the   *)
(* segment the hits span, on that row (column), except those that are      *)
(* busy; they are not tested against the board's edge.  So (2,2), (2,3)    *)
(* give {(2,1), (2,4)} minus busy.                                         *)
(***************************************************************************)
Distance(c, e) == Abs(c.x - e.x) + Abs(c.y - e.y)

\* the dots of the line through p1 and p2 that are one step from one of them
\* and farther from the other than the two are from each other
BeyondEnds(p1, p2) ==
    {c \in {Dot(x, y) : x \in (-1)..GameSize, y \in (-1)..GameSize} :
        /\ IF p1.x = p2.x THEN c.x = p1.x ELSE c.y = p1.y
        /\ \/ Distance(c, p1) = 1 /\ Distance(c, p2) > Distance(p1, p2)
           \/ Distance(c, p2) = 1 /\ Distance(c, p1) > Distance(p1, p2)}

C10_BracketCandidates ==
    (pc = "asked" /\ Len(prev[AI]) = 2) =>
        /\ shot_set = BeyondEnds(prev[AI][1], prev[AI][2]) \ boards[User].busy
        /\ prev[AI] = <<Dot(2, 2), Dot(2, 3)>> =>
              shot_set = {Dot(2, 1), Dot(2, 4)} \ boards[User].busy

\* hits (3,2) and (4,2) of one column, the dot above them busy
C10_Witness ==
    /\ pc = "asked"
    /\ prev[AI] = <<Dot(4, 2), Dot(3, 2)>>
    /\ Dot(2, 2) \in boards[User].busy
    /\ shot_set = {Dot(5, 2)}

(***************************************************************************)
(* C11.  With exactly one hit h in prev, ai_brain returns exactly the four *)
(* dots one step from h along its row and its column, except those that    *)
(* are busy; so (3,3) gives {(4,3), (2,3), (3,4), (3,2)} minus busy.       *)
(***************************************************************************)
C11_CrossCandidates ==
    (pc = "asked" /\ Len(prev[AI]) = 1) =>
        /\ shot_set =
              {c \in {Dot(x, y) : x \in (-1)..GameSize, y \in (-1)..GameSize} :
                  Distance(c, prev[AI][1]) = 1} \ boards[User].busy
        /\ prev[AI] = <<Dot(3, 3)>> =>
              shot_set = {Dot(4, 3), Dot(2, 3), Dot(3, 4), Dot(3, 2)}
                             \ boards[User].busy

\* the hit (3,3) with the dots below and to the left of it busy
C11_Witness ==
    /\ pc = "asked"
    /\ prev[AI] = <<Dot(3, 3)>>
    /\ shot_set = {Dot(2, 3), Dot(3, 4)}

(***************************************************************************)
(* C14.  With prev empty, ai_brain returns the cells of the diagonals      *)
(* y - x = 0, 3, -3 that are not busy; if there is none, the cells of the  *)
(* second pattern (the diagonals y - x = -1 and 2 and the corners (0,5)    *)
(* and (5,0)) that are not busy; if there is none either, every cell of    *)
(* the board that is not busy.  A later tier is used only when the tiers   *)
(* before it have no cell left.                                            *)
(***************************************************************************)
C14_SearchTiers ==
    (pc = "asked" /\ Len(prev[AI]) = 0) =>
        LET busy == boards[User].busy
            first == Diagonals({-3, 0, 3}) \ busy
            second == (Diagonals({-1, 2}) \cup {Dot(0, 5), Dot(5, 0)}) \ busy
        IN  /\ first # {} => shot_set = first
            /\ (first = {} /\ second # {}) => shot_set = second
            /\ (first = {} /\ second = {}) => shot_set = Cells(GameSize) \ busy

\* the first pattern is used up, the second has cells left and so have the
\* cells outside both
C14_Witness ==
    /\ pc = "asked" /\ Len(prev[AI]) = 0
    /\ Diagonals({-3, 0, 3}) \subseteq boards[User].busy
    /\ shot_set # {}
    /\ shot_set # Cells(GameSize) \ boards[User].busy
    /\ Dot(0, 5) \in shot_set

(***************************************************************************)
(* C15.  As stated: the first pattern of the search phase (what ai_brain   *)
(* returns with prev empty and nothing busy) holds a cell of every ship of *)
(* length 2 or 3 that lies on the 6x6 board, horizontal or vertical.       *)
(***************************************************************************)
\* the ships of the given lengths that add_ship accepts on an empty board
Placements(lengths) ==
    {sh \in {Ship(d, horizontal, length) :
                d \in Cells(GameSize), horizontal \in {0, 1}, length \in lengths} :
        add_ship(Board(GameSize), sh).exc = NoException}

C15_PatternCoversTwoAndThree ==
    (pc = "asked" /\ Len(prev[AI]) = 0 /\ boards[User].busy = {}) =>
        \A sh \in Placements({2, 3}) :
            \E c \in shot_set : Occupies(sh, c)

(***************************************************************************)
(* C15, amended.  The first pattern holds a cell of every ship of length 3 *)
(* that lies on the 6x6 board, horizontal or vertical.                     *)
(***************************************************************************)
C15_PatternCoversThree ==
    (pc = "asked" /\ Len(prev[AI]) = 0 /\ boards[User].busy = {}) =>
        \A sh \in Placements({3}) :
            \E c \in shot_set : Occupies(sh, c)

\* ai_brain has answered for an untouched board
C15_Witness ==
    /\ pc = "asked" /\ Len(prev[AI]) = 0 /\ boards[User].busy = {}
    /\ Cardinality(shot_set) = 12

(***************************************************************************)
(* C12.  try_board places the lengths 3, 2, 2, 1, 1, 1, 1 in this order,   *)
(* gives a length at most MaxAttempts (in the source 2000) attempts, goes  *)
(* back to an empty board when a length has used them up, and calls        *)
(* begin() only when all seven ships are placed.  So the board that        *)
(* random_board returns holds exactly seven ships of these lengths, with   *)
(* all their lives, no two of them touching, busy empty and count 0.       *)
(***************************************************************************)
C12_Setup ==
    LET b == boards[1]
    IN  /\ Len(b.ships) <= Len(lens)
        /\ \A i \in ShipIndex(b) :
              b.ships[i].length = lens[i] /\ b.ships[i].lives = lens[i]
        /\ b.count = 0
        /\ pc = "try_board" =>
              /\ 0 <= attempt /\ attempt < MaxAttempts
              /\ \A i \in ShipIndex(b) : \A c \in Cells(b.size) :
                    Occupies(b.ships[i], c) => c \in b.busy
        /\ pc = "returned" =>
              /\ Len(b.ships) = Len(lens)
              /\ b.busy = {}
              /\ \A c \in Cells(b.size) :
                    b.field[c] = IF \E i \in ShipIndex(b) : Occupies(b.ships[i], c)
                                 THEN SHIP ELSE EMPTY
              /\ \A i, j \in ShipIndex(b) :
                    i # j => \A c \in Cells(b.size) :
                                ~(Occupies(b.ships[i], c)
                                     /\ NearShip(b, b.ships[j], c))

C12_Step ==
    /\ (last'.op = "add_ship" /\ last'.exc # NoException) =>
          IF attempt = MaxAttempts - 1
          THEN boards'[1] = Board(GameSize) /\ attempt' = 0
          ELSE boards' = boards /\ attempt' = attempt + 1
    /\ (last'.op = "add_ship" /\ last'.exc = NoException) =>
          /\ Len(boards'[1].ships) = Len(boards[1].ships) + 1
          /\ attempt' = 0
    /\ last'.op = "begin" => Len(boards[1].ships) = Len(lens)

C12_SetupReturnsFleet == []C12_Setup /\ [][C12_Step]_vars

\* a board was returned, its 3-ship vertical and its first 2-ship horizontal
C12_Witness ==
    /\ pc = "returned"
    /\ Len(boards[1].ships) = Len(lens)
    /\ boards[1].ships[1].horizontal = 0
    /\ boards[1].ships[2].horizontal = 1

(***************************************************************************)
(* C13.  In the pass of move() where shot() accepts the target: if shot()  *)
(* returned TRUE the target is appended to the mover's prev; if the        *)
(* enemy's count is no longer what it was when move() began, prev is empty *)
(* when move() returns; after a miss prev is what it was; the other        *)
(* player's prev is untouched; and move() returns what shot() returned,    *)
(* so Game.loop keeps num exactly when shot() returned TRUE.               *)
(***************************************************************************)
C13_Step ==
    (pc = "move" /\ pc' \in {"loop", "done"}) =>
        LET m == Mover(num)
            e == Enemy(m)
            newBusy == boards'[e].busy \ boards[e].busy
        IN  /\ Accepted(last')
            /\ prev'[Enemy(m)] = prev[Enemy(m)]
            /\ boards'[e].count # is_sunk => prev'[m] = <<>>
            /\ (last'.ret /\ boards'[e].count = is_sunk) =>
                  \E target \in newBusy :
                      /\ newBusy = {target}
                      /\ boards'[e].field[target] = HIT
                      /\ prev'[m] = Append(prev[m], target)
            /\ (~last'.ret /\ boards'[e].count = is_sunk) =>
                  /\ prev'[m] = prev[m]
                  /\ \E target \in newBusy :
                        newBusy = {target} /\ boards'[e].field[target] = MISS
            /\ pc' = "loop" => (num' = num <=> last'.ret)
            /\ pc' = "loop" => (num' = num + 1 <=> ~last'.ret)

C13_MoveUpdatesPrev == [][C13_Step]_vars

\* the AI sank a ship it had wounded twice: its prev went from two hits to none
C13_Witness ==
    /\ pc = "loop" /\ Accepted(last) /\ ~last.ret
    /\ Mover(num) = User
    /\ prev[AI] = <<>>
    /\ \E i \in ShipIndex(boards[User]) :
          boards[User].ships[i].length = 3 /\ boards[User].ships[i].lives = 0
    /\ boards[User].count = 1
    /\ boards[User].field[Dot(3, 0)] = HIT

(***************************************************************************)
(* C16.  In every state of a board that was set up by add_ship and then    *)
(* shot at, every cell a ship occupies shows SHIP or HIT (HIT exactly when *)
(* it was shot): neither the mark of a miss nor the ring drawn round a     *)
(* sunk ship is ever written on a cell of a ship.                          *)
(***************************************************************************)
C16_ShipCellsShipOrHit ==
    LET b == boards[1]
    IN  \A i \in ShipIndex(b) : \A c \in Cells(b.size) :
            Occupies(b.ships[i], c) =>
                /\ b.field[c] \in {SHIP, HIT}
                /\ b.field[c] = HIT <=> c \in fired[1]

\* a ship is sunk and ringed, another ship stands, and a shot has missed
C16_Witness ==
    /\ pc = "play"
    /\ Len(boards[1].ships) = 2
    /\ boards[1].count = 1
    /\ \E c \in fired[1] : boards[1].field[c] = MISS
    /\ \E i \in ShipIndex(boards[1]) :
          boards[1].ships[i].lives = 0 /\ boards[1].ships[i].length = 2

(***************************************************************************)
(* C17.  Right after the shot that sinks a ship, and ever after, every     *)
(* cell of the board within one step of that ship and not of the ship is   *)
(* busy and shows the mark of a miss, so a shot at it raises               *)
(* BoardBusyException although nobody shot there; the sinking shot changes *)
(* no cell that was busy before it.                                        *)
(***************************************************************************)
C17_Ringed ==
    LET b == boards[1]
    IN  pc = "play" =>
            \A i \in ShipIndex(b) :
                b.ships[i].lives = 0 =>
                    \A c \in Cells(b.size) :
                        (NearShip(b, b.ships[i], c) /\ ~Occupies(b.ships[i], c))
                            => /\ c \in b.busy
                               /\ b.field[c] = MISS
                               /\ shot(b, c).exc = BoardBusyException

C17_SinkStep ==
    C6_Sinks => \A c \in boards[1].busy : boards'[1].field[c] = boards[1].field[c]

C17_SunkShipRinged == []C17_Ringed /\ [][C17_SinkStep]_vars

\* a two-cell ship is sunk; a cell beside it was shot before, the others of
\* its ring never
C17_Witness ==
    /\ pc = "play" /\ Accepted(last) /\ ~last.ret
    /\ boards[1].field[last.d] = HIT
    /\ \E i \in ShipIndex(boards[1]) :
          /\ Occupies(boards[1].ships[i], last.d)
          /\ boards[1].ships[i].length = 2
          /\ \E c \in fired[1] :
                NearShip(boards[1], boards[1].ships[i], c)
                    /\ ~Occupies(boards[1].ships[i], c)
          /\ \E c \in boards[1].busy \ fired[1] :
                NearShip(boards[1], boards[1].ships[i], c)

(***************************************************************************)
(* C18.  Whenever the AI is asked for a target while fewer than 7 ships of *)
(* the board it shoots at are sunk, ai_brain returns at least one dot, in  *)
(* the search, the cross and the bracket phase alike: choice() is never    *)
(* handed an empty list, and move() never ends in IndexError.              *)
(***************************************************************************)
C18_CandidatesNonEmpty ==
    /\ (pc = "move" /\ boards[User].count < FleetSize) =>
          ai_brain(prev[AI], boards[User]) # {}
    /\ pc # "crashed"
    /\ last.exc # IndexError
    /\ pc = "move" => boards[User].count < FleetSize

\* the bracket phase with one end of the two hits already shot: one dot left
C18_Witness ==
    /\ pc = "move"
    /\ Len(prev[AI]) = 2
    /\ Cardinality(ai_brain(prev[AI], boards[User])) = 1
    /\ boards[User].count >= 1

(***************************************************************************)
(* C19.  On a board only the AI shoots at: prev never holds more than two  *)
(* dots; its dots are distinct cells showing HIT, all of one ship that is  *)
(* wounded and not sunk; prev is non-empty exactly when the board has such *)
(* a ship, and there is never more than one; and while a ship is wounded,  *)
(* every shot that is accepted goes one step beside the single hit, or     *)
(* one step beyond an end of the two hits on their line.                   *)
(***************************************************************************)
C19_Hunting ==
    LET b == boards[User]
        p == prev[AI]
        wounded == {i \in ShipIndex(b) : Wounded(b.ships[i])}
    IN  /\ Len(p) <= 2
        /\ Cardinality(wounded) <= 1
        /\ Len(p) > 0 <=> wounded # {}
        /\ Len(p) = 2 => p[1] # p[2]
        /\ \A k \in 1..Len(p) :
              /\ b.field[p[k]] = HIT
              /\ \A i \in wounded : Occupies(b.ships[i], p[k])

C19_Step ==
    (pc = "move" /\ Accepted(last') /\ boards' # boards /\ Len(prev[AI]) > 0) =>
        LET b == boards[User]
            p == prev[AI]
            hits == {c \in Cells(b.size) :
                        boards'[User].field[c] = HIT /\ b.field[c] # HIT}
            target == IF hits # {} THEN hits
                      ELSE boards'[User].busy \ b.busy
        IN  /\ Cardinality(target) = 1
            /\ \A d \in target :
                  IF Len(p) = 1 THEN Distance(d, p[1]) = 1
                  ELSE d \in BeyondEnds(p[1], p[2])

C19_HuntsOneShip == []C19_Hunting /\ [][C19_Step]_vars

\* two hits on the 3-ship while two other ships are already sunk
C19_Witness ==
    /\ pc = "move"
    /\ Len(prev[AI]) = 2
    /\ boards[User].count >= 2
    /\ \E c \in boards[User].busy :
          boards[User].field[c] = MISS /\ Distance(c, prev[AI][1]) = 1

(***************************************************************************)
(* C20.  As stated: every dot ai_brain offers lies on the board and is not *)
(* busy, in every phase, so shot() accepts whichever the AI picks and no   *)
(* pass of the AI's move() ends in an exception.                           *)
(***************************************************************************)
C20_ProposalsAccepted ==
    /\ pc = "move" =>
          \A d \in ai_brain(prev[AI], boards[User]) :
              ~is_out(boards[User], d) /\ d \notin boards[User].busy
    /\ last.exc = NoException

=============================================================================
